---------------------------- MODULE Spec2Model ----------------------------
(***************************************************************************)
(* The epoch annotation store of phypno/attr/scores.py (class Scores).     *)
(*                                                                         *)
(* A character string is a sequence of characters; the characters "sp",    *)
(* "tab" and "nl" stand for the blank, the tabulator and the line feed.    *)
(* An optional value (a Python value that may be None) is a sequence of    *)
(* length 0 (None) or 1.                                                   *)
(*                                                                         *)
(* The file is modelled by the character content of its nodes (what the    *)
(* bytes say): a root with its text, the rater elements with their name,   *)
(* text and tail, the epoch elements with their id, text and tail, and     *)
(* the value elements of an epoch with their text and tail.  The element   *)
(* tags are read by no line of the class and are left out.  The in-memory  *)
(* document is the ElementTree of the same shape, where every text and     *)
(* tail is a str or None.                                                  *)
(***************************************************************************)
EXTENDS Integers, Sequences, FiniteSets, TLC

VARIABLES
    root,   \* self.root: None before a store exists, else the element tree
    file,   \* the content of xml_file: None when it holds no document
    op,     \* the name of the last call
    arg,    \* the arguments of the last call
    res,    \* the outcome of the last call: [kind, val]
    failed  \* whether a write of the store to the file has failed

vars == <<root, file, op, arg, res, failed>>

\* ------------------------------------------------------------------ bounds
MaxEpochs == 2
MaxRaters == 2

\* ------------------------------------------------------- values and strings
None == << >>
Some(x) == << x >>

Ws == {"sp", "tab", "nl"}
Digits == <<"0", "1", "2", "3", "4", "5", "6", "7", "8", "9">>
DigitSet == {Digits[i] : i \in 1..Len(Digits)}
DigitVal(c) == (CHOOSE i \in 1..Len(Digits) : Digits[i] = c) - 1

RECURSIVE lstrip(_)
lstrip(s) == IF s # << >> /\ Head(s) \in Ws THEN lstrip(Tail(s)) ELSE s

RECURSIVE rstrip(_)
rstrip(s) ==
    IF s # << >> /\ s[Len(s)] \in Ws THEN rstrip(SubSeq(s, 1, Len(s) - 1)) ELSE s

\* str.strip()
strip(s) == rstrip(lstrip(s))

RECURSIVE DigitsVal(_)
DigitsVal(s) ==
    IF s = << >> THEN 0
    ELSE 10 * DigitsVal(SubSeq(s, 1, Len(s) - 1)) + DigitVal(s[Len(s)])

\* int(text): the error it raises ("" when it raises none) and its value
int_error(t) ==
    IF t = None THEN "TypeError"
    ELSE LET s == strip(t[1]) IN
         IF s = << >> \/ \E i \in 1..Len(s) : s[i] \notin DigitSet
         THEN "ValueError" ELSE ""
int(t) == DigitsVal(strip(t[1]))

RECURSIVE NatToDigits(_)
NatToDigits(n) ==
    IF n < 10 THEN <<Digits[n + 1]>>
    ELSE NatToDigits(n \div 10) \o <<Digits[(n % 10) + 1]>>

Ok(v) == [kind |-> "ok", val |-> v]
Err(k) == [kind |-> k, val |-> << >>]

\* ------------------------------------------------- parsing and serialising
\* xml.etree.ElementTree.parse: character content to text/tail, None when
\* there is no character between two tags.
parse_text(s) == IF s = << >> THEN None ELSE Some(s)

parse_value(v) == [text |-> parse_text(v.text), tail |-> parse_text(v.tail)]
parse_epoch(e) ==
    [id |-> e.id, text |-> parse_text(e.text), tail |-> parse_text(e.tail),
     vals |-> [i \in 1..Len(e.vals) |-> parse_value(e.vals[i])]]
parse_rater(r) ==
    [name |-> r.name, text |-> parse_text(r.text), tail |-> parse_text(r.tail),
     epochs |-> [i \in 1..Len(r.epochs) |-> parse_epoch(r.epochs[i])]]
parse(d) ==
    [text |-> parse_text(d.text),
     raters |-> [i \in 1..Len(d.raters) |-> parse_rater(d.raters[i])]]

\* xml.etree.ElementTree.tostring: None and '' both write no character.
tostring_text(t) == IF t = None THEN << >> ELSE t[1]

tostring_value(v) == [text |-> tostring_text(v.text), tail |-> tostring_text(v.tail)]
tostring_epoch(e) ==
    [id |-> e.id, text |-> tostring_text(e.text), tail |-> tostring_text(e.tail),
     vals |-> [i \in 1..Len(e.vals) |-> tostring_value(e.vals[i])]]
tostring_rater(r) ==
    [name |-> r.name, text |-> tostring_text(r.text), tail |-> tostring_text(r.tail),
     epochs |-> [i \in 1..Len(r.epochs) |-> tostring_epoch(r.epochs[i])]]
tostring(t) ==
    [text |-> tostring_text(t.text),
     raters |-> [i \in 1..Len(t.raters) |-> tostring_rater(t.raters[i])]]

\* xml.dom.minidom parseString(...).toprettyxml(): an element with element
\* children is written with one node per line, each child node at depth d
\* after d tabulators, a non-empty text node on a line of its own; an
\* element without element children keeps its text as it is.
Tabs(d) == [i \in 1..d |-> "tab"]
Pad(t, d, nxt) ==
    <<"nl">> \o (IF t = << >> THEN << >> ELSE Tabs(d) \o t \o <<"nl">>) \o Tabs(nxt)
PadText(t, n, d) == IF n = 0 THEN t ELSE Pad(t, d + 1, d + 1)
PadTail(t, i, n, d) == Pad(t, d + 1, IF i < n THEN d + 1 ELSE d)

\* Mutant of pretty_value: the text of a value element is put on a line of
\* its own, as toprettyxml did before Python 3.3.
pretty_value_indented(v, i, n) ==
    [text |-> IF v.text = << >> THEN << >> ELSE Pad(v.text, 4, 3),
     tail |-> PadTail(v.tail, i, n, 2)]

pretty_value(v, i, n) == [text |-> v.text, tail |-> PadTail(v.tail, i, n, 2)]
pretty_epoch(e, i, n) ==
    [id |-> e.id, text |-> PadText(e.text, Len(e.vals), 2),
     tail |-> PadTail(e.tail, i, n, 1),
     vals |-> [j \in 1..Len(e.vals) |-> pretty_value(e.vals[j], j, Len(e.vals))]]
pretty_rater(r, i, n) ==
    [name |-> r.name, text |-> PadText(r.text, Len(r.epochs), 1),
     tail |-> PadTail(r.tail, i, n, 0),
     epochs |-> [j \in 1..Len(r.epochs) |-> pretty_epoch(r.epochs[j], j, Len(r.epochs))]]
toprettyxml(d) ==
    [text |-> PadText(d.text, Len(d.raters), 0),
     raters |-> [i \in 1..Len(d.raters) |-> pretty_rater(d.raters[i], i, Len(d.raters))]]


\* ------------------------------------------------------------ load and save
\* The nodes whose text or tail load() strips: x.strip() raises
\* AttributeError when x is None.
epoch_strips_ok(e) ==
    /\ e.text # None
    /\ e.tail # None
    /\ \A k \in 1..Len(e.vals) : e.vals[k].tail # None

rater_strips_ok(r) ==
    /\ r.text # None
    /\ r.tail # None
    /\ \A j \in 1..Len(r.epochs) : epoch_strips_ok(r.epochs[j])

load_strips_ok(t) ==
    /\ t.text # None
    /\ \A i \in 1..Len(t.raters) : rater_strips_ok(t.raters[i])

strip_text(t) == Some(strip(t[1]))

strip_value(v) == [text |-> v.text, tail |-> strip_text(v.tail)]
strip_epoch(e) ==
    [id |-> e.id, text |-> strip_text(e.text), tail |-> strip_text(e.tail),
     vals |-> [k \in 1..Len(e.vals) |-> strip_value(e.vals[k])]]
strip_rater(r) ==
    [name |-> r.name, text |-> strip_text(r.text), tail |-> strip_text(r.tail),
     epochs |-> [j \in 1..Len(r.epochs) |-> strip_epoch(r.epochs[j])]]
strip_root(t) ==
    [text |-> strip_text(t.text),
     raters |-> [i \in 1..Len(t.raters) |-> strip_rater(t.raters[i])]]

\* Scores.load(), as a function of the file: the tree it assigns to
\* self.root, or the error it raises before the assignment.
load_result(f) ==
    IF f = None THEN Err("ParseError")
    ELSE IF ~load_strips_ok(parse(f[1])) THEN Err("AttributeError")
    ELSE Ok(strip_root(parse(f[1])))

\* Scores.save(), as a function of the tree: the content it writes.
save_content(t) == Some(toprettyxml(tostring(t)))

\* What save() leaves in the file: the new content; the old content when
\* open(xml_file, 'w') fails; no document when the write fails after the
\* file was truncated.
SaveOutcomes == {"ok", "OpenError", "WriteError"}
file_after_save(t, f, how) ==
    IF how = "ok" THEN save_content(t)
    ELSE IF how = "OpenError" THEN f
    ELSE None
save_result(how) == IF how = "ok" THEN Ok(<< >>) ELSE Err(how)
failed_after(how) == failed \/ how # "ok"

\* ------------------------------------------------------------------ queries
\* Mutant of first_rater: the last rater section instead of the first.
first_rater_last(t) == t.raters[Len(t.raters)]

\* list(self.root)[0]
first_rater(t) == t.raters[1]

get_rater_result(t) ==
    IF Len(t.raters) = 0 THEN Err("IndexError") ELSE Ok(Some(first_rater(t).name))

\* the error of building one epoch's dict ("" when there is none)
epoch_dict_error(e) ==
    IF Len(e.vals) < 1 THEN "IndexError"
    ELSE IF int_error(e.vals[1].text) # "" THEN int_error(e.vals[1].text)
    ELSE IF Len(e.vals) < 2 THEN "IndexError"
    ELSE IF int_error(e.vals[2].text) # "" THEN int_error(e.vals[2].text)
    ELSE IF Len(e.vals) < 3 THEN "IndexError"
    ELSE ""
epoch_dict(e) ==
    [start_time |-> int(e.vals[1].text), end_time |-> int(e.vals[2].text),
     stage |-> e.vals[3].text]

RECURSIVE epochs_loop(_, _)
epochs_loop(all_epochs, epochs) ==
    IF all_epochs = << >> THEN Ok(epochs)
    ELSE IF epoch_dict_error(Head(all_epochs)) # ""
    THEN Err(epoch_dict_error(Head(all_epochs)))
    ELSE epochs_loop(Tail(all_epochs), Append(epochs, epoch_dict(Head(all_epochs))))

\* Mutant of stage_in: the stage is stripped before it is looked up.
stage_in_stripped(stage, stages) == stage # None /\ strip(stage[1]) \in stages

\* x['stage'] in stages_of_interest, for a collection of str
stage_in(stage, stages) == stage # None /\ stage[1] \in stages

RECURSIVE epochs_filter(_, _)
epochs_filter(epochs, stages) ==
    IF epochs = << >> THEN << >>
    ELSE (IF stage_in(Head(epochs).stage, stages) THEN <<Head(epochs)>> ELSE << >>)
         \o epochs_filter(Tail(epochs), stages)

get_epochs_result(t, stages_of_interest) ==
    IF Len(t.raters) = 0 THEN Err("IndexError")
    ELSE LET r == epochs_loop(first_rater(t).epochs, << >>) IN
         IF r.kind # "ok" \/ stages_of_interest = None THEN r
         ELSE Ok(epochs_filter(r.val, stages_of_interest[1]))

\* Mutant of scan: the loop has no break and ends at the last match.
scan_last(all_epochs, id_epoch, i) ==
    LET m == {k \in i..Len(all_epochs) : all_epochs[k].id = id_epoch}
    IN IF m = {} THEN [at |-> Len(all_epochs), found |-> FALSE]
       ELSE [at |-> CHOOSE k \in m : \A j \in m : j <= k, found |-> TRUE]

\* The for loop of get_stage_for_epoch and set_stage_for_epoch: the index
\* of the epoch the loop variable is bound to when the loop ends (0 when
\* the loop body never ran), and whether the loop ended by break.
RECURSIVE scan(_, _, _)
scan(all_epochs, id_epoch, i) ==
    IF i > Len(all_epochs) THEN [at |-> Len(all_epochs), found |-> FALSE]
    ELSE IF all_epochs[i].id = id_epoch THEN [at |-> i, found |-> TRUE]
    ELSE scan(all_epochs, id_epoch, i + 1)

get_stage_for_epoch_result(t, id_epoch) ==
    IF Len(t.raters) = 0 THEN Err("IndexError")
    ELSE LET all_epochs == first_rater(t).epochs
             s == scan(all_epochs, id_epoch, 1)
         IN IF s.at = 0 THEN Err("UnboundLocalError")
            ELSE IF Len(all_epochs[s.at].vals) < 3 THEN Err("IndexError")
            ELSE Ok(all_epochs[s.at].vals[3].text)

\* Mutant of with_stage: the assignment is made to a copy of the node.
with_stage_copy(t, at, stage) == t

\* list(epoch)[2].text = stage
with_stage(t, at, stage) ==
    [t EXCEPT !.raters[1].epochs[at].vals[3].text = Some(stage)]

\* Mutant of set_stage_tree: the loop has no break and assigns to every
\* epoch with the id.
set_stage_tree_all(t, id_epoch, stage) ==
    [t EXCEPT !.raters[1].epochs =
        [k \in 1..Len(t.raters[1].epochs) |->
            IF t.raters[1].epochs[k].id = id_epoch
            THEN [t.raters[1].epochs[k] EXCEPT !.vals[3].text = Some(stage)]
            ELSE t.raters[1].epochs[k]]]

\* The error set_stage_for_epoch raises before it saves ("" when none)
set_stage_error(t, id_epoch) ==
    IF Len(t.raters) = 0 THEN "IndexError"
    ELSE LET all_epochs == first_rater(t).epochs
             s == scan(all_epochs, id_epoch, 1)
         IN IF ~s.found THEN "KeyError"
            ELSE IF Len(all_epochs[s.at].vals) < 3 THEN "IndexError"
            ELSE ""
set_stage_tree(t, id_epoch, stage) ==
    with_stage(t, scan(first_rater(t).epochs, id_epoch, 1).at, stage)

\* self.root after set_stage_for_epoch: the assignment is made before
\* save() is called, whatever save() does.
set_stage_root(t, id_epoch, stage) ==
    IF set_stage_error(t, id_epoch) # "" THEN t ELSE set_stage_tree(t, id_epoch, stage)

\* Mutant of set_stage_file: save() is called before the found check.
set_stage_file_save_first(t, f, id_epoch, stage, how) ==
    file_after_save(set_stage_root(t, id_epoch, stage), f, how)

\* the file after set_stage_for_epoch: save() is reached only when the
\* epoch was found.
set_stage_file(t, f, id_epoch, stage, how) ==
    IF set_stage_error(t, id_epoch) # "" THEN f
    ELSE file_after_save(set_stage_tree(t, id_epoch, stage), f, how)

set_stage_result(t, id_epoch, how) ==
    IF set_stage_error(t, id_epoch) # "" THEN Err(set_stage_error(t, id_epoch))
    ELSE save_result(how)

\* ------------------------------------------------- the documents considered
Ids == {"e1", "e2"}
QueryIds == Ids \cup {"zz"}

W == <<"W">>
N2 == <<"N", "2">>
FileStages == {<< >>, W}
NewStages == {<< >>, N2}
StageArgs == {None, Some({W}), Some({N2, << >>})}

RaterName(i) == IF i = 1 THEN "Alice" ELSE IF i = 2 THEN "Bob" ELSE "Carol"

\* The epochs of the first rater: the first has the id "e1", a later one
\* the same id or "e2"; any stages; epoch k spans the seconds 30 (k - 1)
\* to 30 k.
EpochLists ==
    UNION {{es \in [1..n -> Ids \X FileStages] : n > 0 => es[1][1] = "e1"} :
              n \in 0..MaxEpochs}
Styles == {"compact", "loose"}
\* A document has one rater or MaxRaters raters.
RaterCounts == {1, MaxRaters}

\* A loose document has one blank at every padding place and before the
\* text of every value; a compact one has no padding at all.
StylePad(style) == IF style = "loose" THEN <<"sp">> ELSE << >>

MkEpoch(k, id, stage, style) ==
    [id |-> id, text |-> StylePad(style), tail |-> StylePad(style),
     vals |-> << [text |-> StylePad(style) \o NatToDigits(30 * (k - 1)),
                  tail |-> StylePad(style)],
                 [text |-> StylePad(style) \o NatToDigits(30 * k),
                  tail |-> StylePad(style)],
                 [text |-> StylePad(style) \o stage, tail |-> StylePad(style)] >>]

\* A later rater holds one epoch, with the id "e2".
MkRater(i, es, style) ==
    [name |-> RaterName(i), text |-> StylePad(style), tail |-> StylePad(style),
     epochs |-> IF i = 1
                THEN [k \in 1..Len(es) |-> MkEpoch(k, es[k][1], es[k][2], style)]
                ELSE << MkEpoch(1, "e2", <<"R">>, style) >>]

MkDoc(n, es, style) ==
    [text |-> StylePad(style), raters |-> [i \in 1..n |-> MkRater(i, es, style)]]

PlainDocs ==
    {MkDoc(n, es, style) : n \in RaterCounts, es \in EpochLists, style \in Styles}
    \cup {MkDoc(0, << >>, style) : style \in Styles}

\* The files: compact, loose, or as toprettyxml writes them.
InitFiles ==
    PlainDocs \cup {toprettyxml(MkDoc(n, es, "compact")) :
                       n \in RaterCounts, es \in EpochLists}

\* The trees a caller hands to Scores(xml_file, root)
SuppliedRoots == {parse(MkDoc(n, es, "compact")) : n \in RaterCounts, es \in EpochLists}

\* ------------------------------------------------------------------ actions
Init ==
    /\ root = None
    /\ file \in {Some(d) : d \in InitFiles}
    /\ op = "none"
    /\ arg = << >>
    /\ res = Ok(<< >>)
    /\ failed = FALSE

\* Scores(xml_file): __init__ with root None calls load(); when load raises,
\* no store comes to exist.
init_load ==
    /\ root = None
    /\ LET r == load_result(file)
       IN /\ root' = (IF r.kind = "ok" THEN Some(r.val) ELSE None)
          /\ res' = (IF r.kind = "ok" THEN Ok(<< >>) ELSE r)
    /\ op' = "init_load"
    /\ arg' = << >>
    /\ failed' = FALSE
    /\ UNCHANGED file

\* Scores(xml_file, root): __init__ with a root calls save(); when save
\* raises, no store comes to exist.
init_save ==
    /\ root = None
    /\ \E t \in SuppliedRoots, how \in SaveOutcomes :
          /\ root' = (IF how = "ok" THEN Some(t) ELSE None)
          /\ file' = file_after_save(t, file, how)
          /\ op' = "init_save"
          /\ arg' = << >>
          /\ res' = save_result(how)
          /\ failed' = FALSE

load ==
    /\ root # None
    /\ LET r == load_result(file)
       IN /\ root' = (IF r.kind = "ok" THEN Some(r.val) ELSE root)
          /\ res' = (IF r.kind = "ok" THEN Ok(<< >>) ELSE r)
    /\ op' = "load"
    /\ arg' = << >>
    /\ UNCHANGED <<file, failed>>

save ==
    /\ root # None
    /\ \E how \in SaveOutcomes :
          /\ file' = file_after_save(root[1], file, how)
          /\ op' = "save"
          /\ arg' = << >>
          /\ res' = save_result(how)
          /\ failed' = failed_after(how)
    /\ UNCHANGED root

get_rater ==
    /\ root # None
    /\ op' = "get_rater"
    /\ arg' = << >>
    /\ res' = get_rater_result(root[1])
    /\ UNCHANGED <<root, file, failed>>

get_epochs ==
    /\ root # None
    /\ \E stages_of_interest \in StageArgs :
          /\ op' = "get_epochs"
          /\ arg' = <<stages_of_interest>>
          /\ res' = get_epochs_result(root[1], stages_of_interest)
    /\ UNCHANGED <<root, file, failed>>

get_stage_for_epoch ==
    /\ root # None
    /\ \E id_epoch \in QueryIds :
          /\ op' = "get_stage_for_epoch"
          /\ arg' = <<id_epoch>>
          /\ res' = get_stage_for_epoch_result(root[1], id_epoch)
    /\ UNCHANGED <<root, file, failed>>

set_stage_for_epoch ==
    /\ root # None
    /\ \E id_epoch \in QueryIds, stage \in NewStages, how \in SaveOutcomes :
          /\ set_stage_error(root[1], id_epoch) # "" => how = "ok"
          /\ op' = "set_stage_for_epoch"
          /\ arg' = <<id_epoch, stage>>
          /\ root' = Some(set_stage_root(root[1], id_epoch, stage))
          /\ file' = set_stage_file(root[1], file, id_epoch, stage, how)
          /\ res' = set_stage_result(root[1], id_epoch, how)
          /\ failed' = (IF set_stage_error(root[1], id_epoch) # "" THEN failed
                        ELSE failed_after(how))

Next ==
    \/ init_load
    \/ init_save
    \/ load
    \/ save
    \/ get_rater
    \/ get_epochs
    \/ get_stage_for_epoch
    \/ set_stage_for_epoch

Spec == Init /\ [][Next]_vars


\* ------------------------------------------------------------------- claims
\* The store holds a document of the data model: it has a rater section.
HasRater == root # None /\ Len(root[1].raters) >= 1

\* E, the epoch sequence of the first rater
Epochs == root[1].raters[1].epochs

IdsOf(es) == {es[k].id : k \in 1..Len(es)}
WithId(es, id) == {k \in 1..Len(es) : es[k].id = id}
FirstWith(es, id) == CHOOSE k \in WithId(es, id) : \A j \in WithId(es, id) : k <= j

\* The characters of a text: None and '' are both the text of an element
\* without character content.
Chars(t) == IF t = None THEN << >> ELSE t[1]

\* What a document says: the raters in order, each with its name and its
\* epochs in order, each with its id and the text of its values.
MemStructure(t) ==
    [i \in 1..Len(t.raters) |->
        [name |-> t.raters[i].name,
         epochs |-> [j \in 1..Len(t.raters[i].epochs) |->
             [id |-> t.raters[i].epochs[j].id,
              vals |-> [k \in 1..Len(t.raters[i].epochs[j].vals) |->
                           Chars(t.raters[i].epochs[j].vals[k].text)]]]]]
FileStructure(d) ==
    [i \in 1..Len(d.raters) |->
        [name |-> d.raters[i].name,
         epochs |-> [j \in 1..Len(d.raters[i].epochs) |->
             [id |-> d.raters[i].epochs[j].id,
              vals |-> [k \in 1..Len(d.raters[i].epochs[j].vals) |->
                           d.raters[i].epochs[j].vals[k].text]]]]]

StorageErrors == {"OpenError", "WriteError"}

\* C1: a successful set_stage_for_epoch(id, newStage) changes only the stage
\* of one epoch that carries id: the number and order of the epochs, every
\* other epoch, the id, start_time and end_time (and every other field) of
\* that epoch and everything outside the epoch list are as before the call,
\* and the file holds the changed document when the call returns.
C1_SetStageFrame ==
    [][ (op' = "set_stage_for_epoch" /\ res'.kind = "ok") =>
          /\ HasRater
          /\ root' # None
          /\ LET old == root[1].raters[1].epochs
                 new == root'[1].raters[1].epochs
             IN /\ Len(new) = Len(old)
                /\ \E k \in 1..Len(old) :
                      /\ old[k].id = arg'[1]
                      /\ new[k] = [old[k] EXCEPT !.vals[3].text = Some(arg'[2])]
                      /\ \A j \in 1..Len(old) : j # k => new[j] = old[j]
                /\ [root'[1] EXCEPT !.raters[1].epochs = old] = root[1]
          /\ file' # None
          /\ FileStructure(file'[1]) = MemStructure(root'[1]) ]_vars

\* C1 witness: a successful call changed the stage of the second of two
\* epochs with different ids to N2, and the first kept another stage.
C1_Witness ==
    /\ op = "set_stage_for_epoch"
    /\ res.kind = "ok"
    /\ arg = <<"e2", N2>>
    /\ HasRater
    /\ Len(Epochs) = 2
    /\ Epochs[1].id = "e1"
    /\ Epochs[1].vals[3].text = Some(W)
    /\ Epochs[2].vals[3].text = Some(N2)
    /\ file # None
    /\ file[1].raters[1].epochs[2].vals[3].text = N2

\* C2: set_stage_for_epoch(id, stage) with an id that no epoch of the
\* (first) rater carries raises KeyError, writes nothing, and leaves the
\* in-memory document and the file as they were.
C2_NotFoundNoWrite ==
    [][ (op' = "set_stage_for_epoch" /\ HasRater
            /\ arg'[1] \notin IdsOf(root[1].raters[1].epochs)) =>
          /\ res'.kind = "KeyError"
          /\ root' = root
          /\ file' = file
          /\ failed' = failed ]_vars

\* C2 witness: the call raised KeyError on a store read from a loose file,
\* and the file still has its own padding (it was not rewritten).
C2_Witness ==
    /\ op = "set_stage_for_epoch"
    /\ res.kind = "KeyError"
    /\ arg[1] = "zz"
    /\ HasRater
    /\ Len(Epochs) >= 1
    /\ file # None
    /\ file[1].text = <<"sp">>

\* C3: get_stage_for_epoch(id) with an id that no epoch carries raises an
\* error, whether the epoch sequence is empty or not.
C3_GetStageNotFoundRaises ==
    (op = "get_stage_for_epoch" /\ HasRater /\ arg[1] \notin IdsOf(Epochs))
        => res.kind # "ok"

\* E as get_epochs shows it: epoch k of every document considered spans the
\* seconds 30 (k - 1) to 30 k.
EpochView(k) ==
    [start_time |-> 30 * (k - 1), end_time |-> 30 * k, stage |-> Epochs[k].vals[3].text]
AllViews == [k \in 1..Len(Epochs) |-> EpochView(k)]

\* C4: get_epochs(S) returns the subsequence of E, in document order, of the
\* epochs whose stage is a member of S (the empty list when there is none),
\* each as {start_time, end_time, stage} with the times as numbers;
\* get_epochs(None) returns all of E.
C4_GetEpochsFilter ==
    (op = "get_epochs" /\ HasRater) =>
        res = Ok(IF arg[1] = None THEN AllViews
                 ELSE LET Member(v) == v.stage # None /\ v.stage[1] \in arg[1][1]
                      IN SelectSeq(AllViews, Member))

\* C4 witness: get_epochs({W}) returned some epochs of E and left out others.
C4_Witness ==
    /\ op = "get_epochs"
    /\ arg = <<Some({W})>>
    /\ res.kind = "ok"
    /\ HasRater
    /\ Len(res.val) >= 1
    /\ Len(res.val) < Len(Epochs)
    /\ res.val[1].start_time = 30

\* C5: when two or more epochs share an id, get_stage_for_epoch(id) returns
\* the stage of the first of them, and set_stage_for_epoch(id, s) sets the
\* stage of the first and leaves every other epoch as it was; neither
\* raises a lookup error (the set fails only when the write to storage
\* fails).
C5_DuplicateIdFirstMatch ==
    /\ [](  (op = "get_stage_for_epoch" /\ HasRater
                /\ Cardinality(WithId(Epochs, arg[1])) >= 2)
             => res = Ok(Epochs[FirstWith(Epochs, arg[1])].vals[3].text) )
    /\ [][ (op' = "set_stage_for_epoch" /\ HasRater
               /\ Cardinality(WithId(root[1].raters[1].epochs, arg'[1])) >= 2) =>
             LET old == root[1].raters[1].epochs
                 new == root'[1].raters[1].epochs
                 k == FirstWith(old, arg'[1])
             IN /\ res'.kind \in {"ok"} \cup StorageErrors
                /\ Len(new) = Len(old)
                /\ new[k].vals[3].text = Some(arg'[2])
                /\ \A j \in 1..Len(old) : j # k => new[j] = old[j] ]_vars

\* C5 witness: both epochs carry the id of a successful set, the first has
\* the new stage and the second has not.
C5_Witness ==
    /\ op = "set_stage_for_epoch"
    /\ res.kind = "ok"
    /\ HasRater
    /\ Len(Epochs) = 2
    /\ Epochs[1].id = arg[1]
    /\ Epochs[2].id = arg[1]
    /\ Epochs[1].vals[3].text = Some(arg[2])
    /\ Epochs[2].vals[3].text # Some(arg[2])


\* A valid document in the file: a rater section, and in every epoch three
\* values of which the first two are numbers.
ValidEpoch(e) ==
    /\ Len(e.vals) = 3
    /\ int_error(parse_text(e.vals[1].text)) = ""
    /\ int_error(parse_text(e.vals[2].text)) = ""
ValidFile ==
    /\ file # None
    /\ Len(file[1].raters) >= 1
    /\ \A i \in 1..Len(file[1].raters) :
          \A j \in 1..Len(file[1].raters[i].epochs) :
              ValidEpoch(file[1].raters[i].epochs[j])

Loads == {"init_load", "load"}

\* C6: loading any valid document D succeeds, whatever its whitespace
\* padding, and saving it then produces a file that says what D says: the
\* same rater names and the same epochs in order, with the same id,
\* start_time, end_time and stage.
C6_LoadSaveRoundTrip ==
    [][ /\ (op' \in Loads /\ ValidFile) => res'.kind = "ok"
        /\ (op \in Loads /\ res.kind = "ok" /\ op' = "save" /\ res'.kind = "ok") =>
              /\ file # None
              /\ file' # None
              /\ FileStructure(file'[1]) = FileStructure(file[1]) ]_vars

\* a stage that is a str without whitespace at either end
CleanStage(e) ==
    /\ e.vals[3].text # None
    /\ strip(e.vals[3].text[1]) = e.vals[3].text[1]

\* C7: after every successful load every epoch has a stage that is not
\* None and has no whitespace at either end, so that get_epochs and
\* get_stage_for_epoch return neither None nor a padded stage.
C7_LoadNormalizesStage ==
    (op \in Loads /\ res.kind = "ok" /\ HasRater) =>
        \A k \in 1..Len(Epochs) : CleanStage(Epochs[k])

\* C8: when the write fails in set_stage_for_epoch(id, s) for an id that
\* an epoch carries, the call raises the storage error and the in-memory
\* document is as before except that it holds the edit: a following
\* get_stage_for_epoch(id) returns s, and a save that succeeds next writes
\* the document with s to the file.
C8_WriteFailureKeepsEdit ==
    /\ []( (op = "set_stage_for_epoch" /\ res.kind \in StorageErrors) =>
              /\ HasRater
              /\ arg[1] \in IdsOf(Epochs)
              /\ Epochs[FirstWith(Epochs, arg[1])].vals[3].text = Some(arg[2])
              /\ get_stage_for_epoch_result(root[1], arg[1]) = Ok(Some(arg[2])) )
    /\ [][ (op' = "set_stage_for_epoch" /\ res'.kind \in StorageErrors) =>
              /\ HasRater
              /\ root' # None
              /\ \E k \in 1..Len(Epochs) :
                    root'[1] = [root[1] EXCEPT
                                   !.raters[1].epochs[k].vals[3].text = Some(arg'[2])] ]_vars
    /\ [][ (op = "set_stage_for_epoch" /\ res.kind \in StorageErrors
               /\ op' = "save" /\ res'.kind = "ok") =>
              /\ file' # None
              /\ file'[1].raters[1].epochs[FirstWith(Epochs, arg[1])].vals[3].text = arg[2]
              /\ FileStructure(file'[1]) = MemStructure(root[1]) ]_vars

\* C8 witness: the write of set_stage_for_epoch("e1", N2) failed after the
\* file was truncated; the file holds no document and the first epoch of
\* the in-memory document has the stage N2.
C8_Witness ==
    /\ op = "set_stage_for_epoch"
    /\ res.kind = "WriteError"
    /\ arg = <<"e1", N2>>
    /\ file = None
    /\ HasRater
    /\ Epochs[1].vals[3].text = Some(N2)

\* C9: as long as no write failed, the file of a store says what the
\* in-memory document says (the same rater names, the same epochs in order
\* with the same id, start_time, end_time and stage); the queries and the
\* loads write nothing.
C9_FileEqualsMemory ==
    /\ []( (root # None /\ ~failed) =>
              /\ file # None
              /\ FileStructure(file[1]) = MemStructure(root[1]) )
    /\ [][ op' \in Loads \cup {"get_rater", "get_epochs", "get_stage_for_epoch"}
              => file' = file ]_vars

\* C9 witness: a store constructed from a supplied tree (its root has no
\* text) after a successful set_stage_for_epoch("e1", N2): no write failed
\* and the file holds N2.
C9_Witness ==
    /\ op = "set_stage_for_epoch"
    /\ res.kind = "ok"
    /\ arg = <<"e1", N2>>
    /\ ~failed
    /\ root # None
    /\ root[1].text = None
    /\ Len(root[1].raters[1].epochs) = 2
    /\ file # None
    /\ file[1].raters[1].epochs[1].vals[3].text = N2

\* what the rater sections after the first say
LaterMem(t) == SubSeq(MemStructure(t), 2, Len(t.raters))
LaterFile(d) == SubSeq(FileStructure(d), 2, Len(d.raters))
LaterIds(t) ==
    UNION {IdsOf(t.raters[i].epochs) : i \in 2..Len(t.raters)}

\* C10: the store reads and writes only the first rater section: get_rater
\* returns the first rater's name, get_epochs and get_stage_for_epoch
\* return what the first rater's epochs hold, set_stage_for_epoch with an
\* id that only an epoch of a later rater carries raises KeyError and
\* changes nothing, and what the later rater sections say stays the same
\* in memory and in the file.
C10_FirstRaterOnly ==
    /\ []( (op = "get_rater" /\ HasRater) => res = Ok(Some(root[1].raters[1].name)) )
    /\ []( (op = "get_epochs" /\ HasRater /\ arg[1] = None) =>
              /\ res.kind = "ok"
              /\ Len(res.val) = Len(Epochs)
              /\ \A k \in 1..Len(Epochs) : res.val[k].stage = Epochs[k].vals[3].text )
    /\ []( (op = "get_stage_for_epoch" /\ HasRater /\ res.kind = "ok") =>
              \E k \in 1..Len(Epochs) : res.val = Epochs[k].vals[3].text )
    /\ [][ (op' = "set_stage_for_epoch" /\ HasRater
               /\ arg'[1] \in LaterIds(root[1])
               /\ arg'[1] \notin IdsOf(Epochs)) =>
              /\ res'.kind = "KeyError"
              /\ root' = root
              /\ file' = file ]_vars
    /\ [][ (root # None /\ root' # None) => LaterMem(root'[1]) = LaterMem(root[1]) ]_vars
    /\ [][ (root # None /\ file # None /\ file' # None) =>
              LaterFile(file'[1]) = LaterFile(file[1]) ]_vars

\* C10 witness: a document with a second rater whose epoch has the id "e2",
\* which no epoch of the first rater has; set_stage_for_epoch("e2", N2)
\* raised KeyError and the second rater's epoch has its stage.
C10_Witness ==
    /\ op = "set_stage_for_epoch"
    /\ res.kind = "KeyError"
    /\ arg = <<"e2", N2>>
    /\ HasRater
    /\ Len(root[1].raters) >= 2
    /\ Len(Epochs) >= 1
    /\ root[1].raters[2].epochs[1].id = "e2"
    /\ Chars(root[1].raters[2].epochs[1].vals[3].text) \in {<<"R">>, <<"sp", "R">>}

=============================================================================
